---- MODULE Spec2Model ----
(***************************************************************************)
(* iplib3/address.py: validators, the text <-> integer codec of IPv4 and   *)
(* IPv6 addresses, and the address value types (PureAddress, IPAddress,    *)
(* IPv4, IPv6) with their port and their lazily cached family view.        *)
(*                                                                         *)
(* Text is a TLA+ string; Python's str methods are modelled on it with     *)
(* Len, SubSeq and \o.  Python integers are unbounded and TLC's are 32     *)
(* bits wide, so the width of a segment is a bound of the model:           *)
(* IPV4_MAX_SEGMENT_VALUE stands for 0xFF and IPV6_MAX_SEGMENT_VALUE for   *)
(* 0xFFFF, and the weight 2**(idx*8) (2**(idx*16)) of the code, which is   *)
(* (max segment value + 1)**idx, is written in that form.                  *)
(***************************************************************************)
EXTENDS Integers, Sequences, FiniteSets, TLC

VARIABLES
    self,   \* the address object the caller holds (cls = "none" before any)
    ret,    \* what the last operation was given and what it returned or raised
    pc,     \* position of a codec round trip ("live" in the object lifecycle)
    inp     \* the input a codec round trip started from

vars == <<self, ret, pc, inp>>

---------------------------------------------------------------------------
(* constants/port.py, constants/ipv4.py, constants/ipv6.py                 *)

PORT_NUMBER_MIN_VALUE == 0
PORT_NUMBER_MAX_VALUE == 65535

IPV4_MAX_SEGMENT_COUNT == 4
IPV4_MIN_SEGMENT_VALUE == 0
IPV4_MAX_SEGMENT_VALUE == 127
IPV4_MIN_VALUE == 0
IPV4_MAX_VALUE == (IPV4_MAX_SEGMENT_VALUE + 1) ^ IPV4_MAX_SEGMENT_COUNT - 1

IPV6_NUMBER_BIT_COUNT == 4
IPV6_SEGMENT_BIT_COUNT == 16
IPV6_MIN_SEGMENT_COUNT == 0
IPV6_MAX_SEGMENT_COUNT == 8
IPV6_MIN_SEGMENT_VALUE == 0
IPV6_MAX_SEGMENT_VALUE == 11
IPV6_MIN_VALUE == 0
IPV6_MAX_VALUE == (IPV6_MAX_SEGMENT_VALUE + 1) ^ IPV6_MAX_SEGMENT_COUNT - 1

---------------------------------------------------------------------------
(* Python values and built-ins used by the module                          *)

\* Optional[int] and a value of another type, as the port setter tells them apart
None == [t |-> "NoneType", v |-> 0]
IntVal(n) == [t |-> "int", v |-> n]
NotAnInt == [t |-> "str", v |-> 0]

\* the outcome of a call: the value returned, or the exception raised
Return(value) == [exc |-> "", val |-> value]
Raise(exception, value) == [exc |-> exception, val |-> value]

Ch(s, i) == SubSeq(s, i, i)

Min(S) == CHOOSE x \in S : \A y \in S : x <= y
Max(S) == CHOOSE x \in S : \A y \in S : x >= y

\* sep in s
Contains(s, sep) ==
    \E j \in 1..Len(s) : j + Len(sep) - 1 <= Len(s) /\ SubSeq(s, j, j + Len(sep) - 1) = sep

\* s.split(sep): the pieces between the leftmost non-overlapping occurrences
RECURSIVE split(_, _)
split(s, sep) ==
    LET hits == {j \in 1..Len(s) :
                    j + Len(sep) - 1 <= Len(s) /\ SubSeq(s, j, j + Len(sep) - 1) = sep}
    IN  IF hits = {}
        THEN <<s>>
        ELSE LET j == Min(hits)
             IN  <<SubSeq(s, 1, j - 1)>> \o split(SubSeq(s, j + Len(sep), Len(s)), sep)

\* sep.join(parts)
RECURSIVE join(_, _)
join(sep, parts) ==
    IF Len(parts) = 0 THEN ""
    ELSE IF Len(parts) = 1 THEN parts[1]
    ELSE parts[1] \o sep \o join(sep, Tail(parts))

\* seq[::-1]
Reversed(seq) == [i \in 1..Len(seq) |-> seq[Len(seq) + 1 - i]]

DigitValue(c) ==
    CASE c = "0" -> 0 [] c = "1" -> 1 [] c = "2" -> 2 [] c = "3" -> 3 [] c = "4" -> 4
      [] c = "5" -> 5 [] c = "6" -> 6 [] c = "7" -> 7 [] c = "8" -> 8 [] c = "9" -> 9
      [] c \in {"a", "A"} -> 10 [] c \in {"b", "B"} -> 11 [] c \in {"c", "C"} -> 12
      [] c \in {"d", "D"} -> 13 [] c \in {"e", "E"} -> 14 [] c \in {"f", "F"} -> 15
      [] OTHER -> 99

RECURSIVE DigitsValue(_, _)
DigitsValue(s, base) ==
    IF Len(s) = 0 THEN 0
    ELSE DigitsValue(SubSeq(s, 1, Len(s) - 1), base) * base + DigitValue(Ch(s, Len(s)))

\* int(s, base): an optional sign, then one or more digits of the base;
\* anything else raises ValueError
int(s, base) ==
    LET signed == Len(s) > 0 /\ Ch(s, 1) \in {"+", "-"}
        body == IF signed THEN SubSeq(s, 2, Len(s)) ELSE s
    IN  IF Len(body) = 0 \/ \E i \in 1..Len(body) : DigitValue(Ch(body, i)) >= base
        THEN Raise("ValueError", 0)
        ELSE Return(IF signed /\ Ch(s, 1) = "-"
                    THEN 0 - DigitsValue(body, base)
                    ELSE DigitsValue(body, base))

RECURSIVE Digits(_, _)
Digits(n, base) ==
    LET d == SubSeq("0123456789abcdef", (n % base) + 1, (n % base) + 1)
    IN  IF n < base THEN d ELSE Digits(n \div base, base) \o d

\* str(n)
str(n) == IF n < 0 THEN "-" \o Digits(0 - n, 10) ELSE Digits(n, 10)

\* hex(n), n >= 0
hex(n) == "0x" \o Digits(n, 16)

UpperChar(c) ==
    CASE c = "a" -> "A" [] c = "b" -> "B" [] c = "c" -> "C" [] c = "d" -> "D"
      [] c = "e" -> "E" [] c = "f" -> "F" [] c = "x" -> "X" [] OTHER -> c

\* s.upper()
RECURSIVE upper(_)
upper(s) == IF Len(s) = 0 THEN "" ELSE UpperChar(Ch(s, 1)) \o upper(SubSeq(s, 2, Len(s)))

\* s.zfill(width), s without a sign
RECURSIVE zfill(_, _)
zfill(s, width) == IF Len(s) >= width THEN s ELSE zfill("0" \o s, width)

---------------------------------------------------------------------------
(* PureAddress: the integer -> text codec                                  *)

\* the remainders of `count` successive divmod(num, base), least significant first
Segments(num, base, count) == [i \in 1..count |-> (num \div base ^ (i - 1)) % base]

\* _num_to_ipv4 without the [::-1] of its segments
_num_to_ipv4_Unreversed(num) ==
    LET segments == Segments(num, IPV4_MAX_SEGMENT_VALUE + 1, IPV4_MAX_SEGMENT_COUNT)
    IN  join(".", [i \in 1..Len(segments) |-> str(segments[i])])

\* PureAddress._num_to_ipv4
_num_to_ipv4(num) ==
    LET segments == Segments(num, IPV4_MAX_SEGMENT_VALUE + 1, IPV4_MAX_SEGMENT_COUNT)
    IN  join(".", [i \in 1..Len(segments) |-> str(Reversed(segments)[i])])

\* the segment's hex digits without the .upper()
HexSegment_Lower(segment) == split(hex(segment), "x")[2]

\* hex(segment).split('x')[1].upper()
HexSegment(segment) == upper(split(hex(segment), "x")[2])

\* the scan of _num_to_ipv6 for the longest strip of '0' segments: the state
\* of the loop after the segments of index idx.. (0-based) have been visited
RECURSIVE ZeroScan(_, _, _)
ZeroScan(segments, idx, st) ==
    IF idx >= Len(segments) THEN st
    ELSE LET seg == segments[idx + 1]
             current_idx == IF seg = "0" /\ st.current = 0 THEN idx ELSE st.current_idx
             current == IF seg = "0" THEN st.current + 1 ELSE 0
             grown == current > st.longest
         IN  ZeroScan(segments, idx + 1,
                      [longest |-> IF grown THEN current ELSE st.longest,
                       longest_idx |-> IF grown THEN current_idx ELSE st.longest_idx,
                       current |-> current,
                       current_idx |-> current_idx])

\* the replacement of the longest strip by the empty strings that join to '::'
RemoveZeroes(segments) ==
    LET st == ZeroScan(segments, 0,
                       [longest |-> 0, longest_idx |-> 0, current |-> 0, current_idx |-> 0])
        longest == st.longest
        longest_idx == st.longest_idx
    IN  (IF IPV6_MIN_SEGMENT_COUNT < longest_idx /\ longest_idx < IPV6_MAX_SEGMENT_COUNT - 1
         THEN SubSeq(segments, 1, longest_idx)
         ELSE <<"">>)
        \o <<"">>
        \o (IF IPV6_MIN_SEGMENT_COUNT < longest_idx + longest
               /\ longest_idx + longest < IPV6_MAX_SEGMENT_COUNT
            THEN SubSeq(segments, longest_idx + longest + 1, Len(segments))
            ELSE <<"">>)

\* PureAddress._num_to_ipv6
_num_to_ipv6(num, shorten, remove_zeroes) ==
    LET hextets == Segments(num, IPV6_MAX_SEGMENT_VALUE + 1, IPV6_MAX_SEGMENT_COUNT)
        segments == [i \in 1..Len(hextets) |-> HexSegment(hextets[i])]
        removed == IF remove_zeroes /\ \E i \in 1..Len(segments) : segments[i] = "0"
                   THEN RemoveZeroes(segments)
                   ELSE segments
        filled == IF ~shorten
                  THEN [i \in 1..Len(removed) |->
                          IF removed[i] # ""
                          THEN zfill(removed[i], IPV6_SEGMENT_BIT_COUNT \div IPV6_NUMBER_BIT_COUNT)
                          ELSE ""]
                  ELSE removed
    IN  join(":", Reversed(filled))

---------------------------------------------------------------------------
(* IPv4, IPv6: the text -> integer codec                                   *)

\* list(map(int, parts)) / [int(p, base) if p else 0 for p in parts]:
\* the integers, or the ValueError of the first token that is none
ParseAll(parts, base, empty_is_zero) ==
    LET one(p) == IF empty_is_zero /\ p = "" THEN Return(0) ELSE int(p, base)
    IN  IF \E i \in 1..Len(parts) : one(parts[i]).exc # ""
        THEN Raise("ValueError", <<>>)
        ELSE Return([i \in 1..Len(parts) |-> one(parts[i]).val])

\* total += num * 2**(idx * bits) over enumerate(segments)
RECURSIVE Weighted(_, _)
Weighted(segments, base) ==
    IF Len(segments) = 0 THEN 0
    ELSE segments[1] + base * Weighted(Tail(segments), base)

\* IPv4._ipv4_to_num
_ipv4_to_num(_address) ==
    LET parsed == ParseAll(split(_address, "."), 10, FALSE)
    IN  IF parsed.exc # "" THEN Raise("ValueError", 0)
        ELSE Return(Weighted(Reversed(parsed.val), IPV4_MAX_SEGMENT_VALUE + 1))

\* the expansion of the zero-skip shared by _ipv6_validator and _ipv6_to_num:
\* the segment tokens of an address with one '::' (halves has two elements)
ExpandZeroSkip(halves) ==
    LET left == split(halves[1], ":")
        right == split(halves[2], ":")
        total_length == Len(left) + Len(right)
        missing == IPV6_MAX_SEGMENT_COUNT - total_length
    IN  (IF halves[1] # "" THEN left ELSE <<"0000">>)
        \o [i \in 1..(IF missing > 0 THEN missing ELSE 0) |-> "0000"]
        \o (IF halves[2] # "" THEN right ELSE <<"0000">>)

\* IPv6._ipv6_to_num
_ipv6_to_num(_address) ==
    LET halves == split(_address, "::")
    IN  IF Len(halves) > 2 THEN Raise("ValueError", 0)
        ELSE
        LET segments == IF Len(halves) = 2 THEN ExpandZeroSkip(halves)
                        ELSE split(halves[1], ":")
            parsed == ParseAll(Reversed(segments), IPV6_SEGMENT_BIT_COUNT, TRUE)
        IN  IF parsed.exc # "" THEN Raise("ValueError", 0)
            ELSE
            LET processed_segments == parsed.val
                values == {processed_segments[i] : i \in 1..Len(processed_segments)}
            IN  IF IPV6_MAX_SEGMENT_COUNT < Len(processed_segments) THEN Raise("ValueError", 0)
                ELSE IF IPV6_MAX_SEGMENT_VALUE < Max(values) THEN Raise("ValueError", 0)
                ELSE IF Min(values) < IPV6_MIN_SEGMENT_VALUE THEN Raise("ValueError", 0)
                ELSE Return(Weighted(processed_segments, IPV6_MAX_SEGMENT_VALUE + 1))

---------------------------------------------------------------------------
(* The codec round trips: an integer rendered and decoded again, a text    *)
(* decoded and rendered again                                              *)

NoObject == [cls |-> "none"]

\* segment values and segment tokens the round trips are run on
HextetValues == {0, 1, IPV6_MAX_SEGMENT_VALUE}
HextetTokens == {"0000", "0001", "000B"}
OctetValues == {0, 1, 10, IPV4_MAX_SEGMENT_VALUE}
OctetTokens == {"0", "1", "10", "127", "01"}

Nums6 == {Weighted(h, IPV6_MAX_SEGMENT_VALUE + 1) :
            h \in [1..IPV6_MAX_SEGMENT_COUNT -> HextetValues]}
Texts6 == {join(":", t) : t \in [1..IPV6_MAX_SEGMENT_COUNT -> HextetTokens]}
Nums4 == {Weighted(o, IPV4_MAX_SEGMENT_VALUE + 1) :
            o \in [1..IPV4_MAX_SEGMENT_COUNT -> OctetValues]}
Texts4 == {join(".", t) : t \in [1..IPV4_MAX_SEGMENT_COUNT -> OctetTokens]}

NoResult == [op |-> "", exc |-> "", text |-> "", num |-> 0,
             shorten |-> TRUE, remove_zeroes |-> FALSE]

InitCodec(nums, texts) ==
    /\ self = NoObject
    /\ ret = NoResult
    /\ \/ pc = "num" /\ inp \in [start : {"num"}, num : nums, text : {""}]
       \/ pc = "text" /\ inp \in [start : {"text"}, num : {0}, text : texts]

\* int_to_ipv6_text: PureAddress._num_to_ipv6 on the integer at hand
Render6 ==
    /\ pc \in {"num", "parsed"}
    /\ \E shorten \in BOOLEAN, remove_zeroes \in BOOLEAN :
         ret' = [ret EXCEPT !.op = "_num_to_ipv6",
                            !.text = _num_to_ipv6(IF pc = "num" THEN inp.num ELSE ret.num,
                                                  shorten, remove_zeroes),
                            !.shorten = shorten,
                            !.remove_zeroes = remove_zeroes]
    /\ pc' = IF pc = "num" THEN "rendered" ELSE "done"
    /\ UNCHANGED <<self, inp>>

\* ipv6_text_to_int: IPv6._ipv6_to_num on the text at hand
Parse6 ==
    /\ pc \in {"text", "rendered"}
    /\ LET r == _ipv6_to_num(IF pc = "text" THEN inp.text ELSE ret.text)
       IN  /\ ret' = [ret EXCEPT !.op = "_ipv6_to_num", !.exc = r.exc, !.num = r.val]
           /\ pc' = IF r.exc # "" THEN "raised" ELSE IF pc = "text" THEN "parsed" ELSE "done"
    /\ UNCHANGED <<self, inp>>

\* int_to_ipv4_text: PureAddress._num_to_ipv4 on the integer at hand
Render4 ==
    /\ pc \in {"num", "parsed"}
    /\ ret' = [ret EXCEPT !.op = "_num_to_ipv4",
                          !.text = _num_to_ipv4(IF pc = "num" THEN inp.num ELSE ret.num)]
    /\ pc' = IF pc = "num" THEN "rendered" ELSE "done"
    /\ UNCHANGED <<self, inp>>

\* ipv4_text_to_int: IPv4._ipv4_to_num on the text at hand
Parse4 ==
    /\ pc \in {"text", "rendered"}
    /\ LET r == _ipv4_to_num(IF pc = "text" THEN inp.text ELSE ret.text)
       IN  /\ ret' = [ret EXCEPT !.op = "_ipv4_to_num", !.exc = r.exc, !.num = r.val]
           /\ pc' = IF r.exc # "" THEN "raised" ELSE IF pc = "text" THEN "parsed" ELSE "done"
    /\ UNCHANGED <<self, inp>>

InitV6 == InitCodec(Nums6, Texts6)
NextV6 == Render6 \/ Parse6
SpecV6 == InitV6 /\ [][NextV6]_vars

InitV4 == InitCodec(Nums4, Texts4)
NextV4 == Render4 \/ Parse4
SpecV4 == InitV4 /\ [][NextV4]_vars

---------------------------------------------------------------------------
(* Validators                                                              *)

\* an argument that is a str or an int
StrArg(s) == [t |-> "str", s |-> s, v |-> 0]
IntArg(n) == [t |-> "int", s |-> "", v |-> n]

InPortRange(n) == PORT_NUMBER_MIN_VALUE <= n /\ n <= PORT_NUMBER_MAX_VALUE

\* _port_validator
_port_validator(port_num) ==
    \/ port_num.t = "NoneType"
    \/ port_num.t = "int" /\ InPortRange(port_num.v)

\* the port part of a validated text: absent, or an integer (in range when strict)
PortTextValid(port, strict) ==
    \/ Len(port) = 0
    \/ LET port_num == int(port[1], 10)
       IN  port_num.exc = "" /\ (strict => InPortRange(port_num.val))

\* _ipv4_validator
_ipv4_validator(address, strict) ==
    IF address.t = "str"
    THEN LET parts == split(address.s, ":")
             segments == ParseAll(split(parts[1], "."), 10, FALSE)
         IN  /\ Contains(address.s, ".")
             /\ PortTextValid(Tail(parts), strict)
             /\ segments.exc = ""
             /\ Len(segments.val) = IPV4_MAX_SEGMENT_COUNT
             /\ strict => \A i \in 1..Len(segments.val) :
                              /\ IPV4_MIN_SEGMENT_VALUE <= segments.val[i]
                              /\ segments.val[i] <= IPV4_MAX_SEGMENT_VALUE
    ELSE IF address.t = "int"
    THEN IPV4_MIN_VALUE <= address.v /\ address.v <= IPV4_MAX_VALUE
    ELSE FALSE

\* _ipv6_validator
_ipv6_validator(address, strict) ==
    IF address.t = "str"
    THEN LET parts == split(address.s, "]:")
             port == Tail(parts)
             addr == IF Len(port) > 0 THEN SubSeq(parts[1], 2, Len(parts[1])) ELSE parts[1]
             halves == split(addr, "::")
             segments == IF Len(halves) = 2 THEN ExpandZeroSkip(halves)
                         ELSE split(halves[1], ":")
             processed_segments == ParseAll(segments, IPV6_SEGMENT_BIT_COUNT, TRUE)
         IN  /\ PortTextValid(port, strict)
             /\ Len(halves) <= 2
             /\ processed_segments.exc = ""
             /\ Len(processed_segments.val) = IPV6_MAX_SEGMENT_COUNT
             /\ strict => \A i \in 1..Len(processed_segments.val) :
                              /\ IPV6_MIN_SEGMENT_VALUE <= processed_segments.val[i]
                              /\ processed_segments.val[i] <= IPV6_MAX_SEGMENT_VALUE
    ELSE IF address.t = "int"
    THEN IPV6_MIN_VALUE <= address.v /\ address.v <= IPV6_MAX_VALUE
    ELSE FALSE

\* _ip_validator
_ip_validator(address, strict) ==
    IF _ipv4_validator(address, strict) THEN TRUE ELSE _ipv6_validator(address, strict)

---------------------------------------------------------------------------
(* Address value types.  An object is a record of its slots; _address is   *)
(* "" for a generic IPAddress and _ipv4, _ipv6 are the cached family views *)
(* (NoObject when not computed yet).                                       *)

Object(cls, num, port, address) ==
    [cls |-> cls, _num |-> num, _port |-> port, _address |-> address,
     _ipv4 |-> NoObject, _ipv6 |-> NoObject]

\* PureAddress.num
Num(obj) == IF obj._num < 0 THEN 0 ELSE obj._num

\* PureAddress.port (getter)
Port(obj) ==
    IF obj._port.t = "NoneType" THEN None
    ELSE IntVal(Min({Max({PORT_NUMBER_MIN_VALUE, obj._port.v}), PORT_NUMBER_MAX_VALUE}))

\* a setter that stores the value before it validates it
SetPortOf_StoreFirst(obj, value) ==
    IF value.t = "NoneType" THEN Return([obj EXCEPT !._port = value])
    ELSE IF value.t # "int" THEN Raise("TypeError", obj)
    ELSE IF ~InPortRange(value.v) THEN Raise("ValueError", [obj EXCEPT !._port = value])
    ELSE Return([obj EXCEPT !._port = value])

\* PureAddress.port (setter): the object after the call, or the exception
SetPortOf(obj, value) ==
    IF value.t = "NoneType" THEN Return([obj EXCEPT !._port = value])
    ELSE IF value.t # "int" THEN Raise("TypeError", obj)
    ELSE IF ~InPortRange(value.v) THEN Raise("ValueError", obj)
    ELSE Return([obj EXCEPT !._port = value])

\* IPAddress.__init__
IPAddress__init__(cls, address, port_num, text) ==
    Object(cls, address, IF _port_validator(port_num) THEN port_num ELSE None, text)

\* an IPv4.__init__ whose embedded port overrides the port_num argument
IPv4__init__EmbeddedFirst(address, port_num) ==
    LET parts == split(address, ":")
        _port == Tail(parts)
        embedded == IF Len(_port) > 0 THEN int(_port[1], 10) ELSE Return(0)
        _address == IF Len(_port) > 0 THEN parts[1] ELSE address
        num == _ipv4_to_num(_address)
    IN  IF embedded.exc # "" THEN Raise("ValueError", NoObject)
        ELSE IF num.exc # "" THEN Raise("ValueError", NoObject)
        ELSE Return(IPAddress__init__("IPv4", num.val,
                                      IF Len(_port) > 0 THEN IntVal(embedded.val) ELSE port_num,
                                      _address))

\* IPv4.__init__
IPv4__init__(address, port_num) ==
    LET parts == split(address, ":")
        _port == Tail(parts)
        embedded == IF Len(_port) > 0 /\ port_num.t = "NoneType"
                    THEN int(_port[1], 10) ELSE Return(0)
        _address == IF Len(_port) > 0 THEN parts[1] ELSE address
        num == _ipv4_to_num(_address)
    IN  IF embedded.exc # "" THEN Raise("ValueError", NoObject)
        ELSE IF num.exc # "" THEN Raise("ValueError", NoObject)
        ELSE Return(IPAddress__init__("IPv4", num.val,
                                      IF Len(_port) > 0 /\ port_num.t = "NoneType"
                                      THEN IntVal(embedded.val) ELSE port_num,
                                      _address))

\* IPv6.__init__
IPv6__init__(address, port_num) ==
    LET parts == split(address, "]:")
        _port == Tail(parts)
        embedded == IF Len(_port) > 0 /\ port_num.t = "NoneType"
                    THEN int(_port[1], 10) ELSE Return(0)
        _address == IF Len(_port) > 0 THEN SubSeq(parts[1], 2, Len(parts[1])) ELSE address
        num == _ipv6_to_num(_address)
    IN  IF embedded.exc # "" THEN Raise("ValueError", NoObject)
        ELSE IF num.exc # "" THEN Raise("ValueError", NoObject)
        ELSE Return(IPAddress__init__("IPv6", num.val,
                                      IF Len(_port) > 0 /\ port_num.t = "NoneType"
                                      THEN IntVal(embedded.val) ELSE port_num,
                                      _address))

\* IPAddress.__new__, inherited by IPv4 and IPv6: cls(address, port_num).
\* A str address selects the class by its '.', whatever class was called;
\* the __init__ that Python runs again on the returned object, when it is
\* an instance of the class called, is given the same arguments and stores
\* the same slots.  An int address is modelled for the generic class.
New(cls, address, port_num) ==
    IF address.t = "str"
    THEN IF Contains(address.s, ".")
         THEN IPv4__init__(address.s, port_num)
         ELSE IPv6__init__(address.s, port_num)
    ELSE Return(IPAddress__init__(cls, address.v, port_num, ""))

\* IPv4.__str__, IPv6.__str__
FamilyStr(obj) ==
    IF Port(obj).t # "NoneType"
    THEN IF obj.cls = "IPv4"
         THEN obj._address \o ":" \o str(Port(obj).v)
         ELSE "[" \o obj._address \o "]:" \o str(Port(obj).v)
    ELSE obj._address

\* IPAddress.as_ipv4, IPAddress.as_ipv6
as_ipv4(obj) == New("IPv4", StrArg(_num_to_ipv4(Num(obj))), Port(obj)).val
as_ipv6(obj) == New("IPv6", StrArg(_num_to_ipv6(Num(obj), TRUE, FALSE)), Port(obj)).val

\* the rendering of a generic address through its family view, which is cached
StrThrough4(obj, view) ==
    [exc |-> "", val |-> FamilyStr(view), obj |-> [obj EXCEPT !._ipv4 = view]]
StrThrough6(obj, view) ==
    [exc |-> "", val |-> FamilyStr(view), obj |-> [obj EXCEPT !._ipv6 = view]]

\* str(obj): the text (or the exception) and the object with its cache filled
Str(obj) ==
    IF obj.cls \in {"IPv4", "IPv6"} THEN [exc |-> "", val |-> FamilyStr(obj), obj |-> obj]
    ELSE IF IPV4_MIN_VALUE <= Num(obj) /\ Num(obj) <= IPV4_MAX_VALUE
    THEN StrThrough4(obj, IF obj._ipv4 = NoObject THEN as_ipv4(obj) ELSE obj._ipv4)
    ELSE IF IPV4_MAX_VALUE < Num(obj) /\ Num(obj) <= IPV6_MAX_VALUE
    THEN StrThrough6(obj, IF obj._ipv6 = NoObject THEN as_ipv6(obj) ELSE obj._ipv6)
    ELSE [exc |-> "ValueError", val |-> "", obj |-> obj]

---------------------------------------------------------------------------
(* Operations on the address object the caller holds                       *)

Blank ==
    [op |-> "", exc |-> "", cls |-> "", address |-> StrArg(""), port_num |-> None,
     text |-> "", flag |-> FALSE, port |-> None, before |-> None,
     validator |-> "", strict |-> TRUE, valid |-> FALSE]

\* what an operation leaves: the object and the record of the call
Returned(obj, record) ==
    /\ self' = obj
    /\ ret' = record

\* cls(address, port_num): a failed construction leaves the caller's object
Constructed(cls, address, port_num, r) ==
    Returned(IF r.exc = "" THEN r.val ELSE self,
             [ret EXCEPT !.op = "new", !.exc = r.exc, !.cls = cls,
                         !.address = address, !.port_num = port_num,
                         !.text = "", !.flag = FALSE, !.port = None, !.before = None])

Construct(cls, address, port_num) ==
    Constructed(cls, address, port_num, New(cls, address, port_num))

\* self.port = value
PortSet(value, r) ==
    Returned(r.val, [Blank EXCEPT !.op = "port.setter", !.exc = r.exc,
                                  !.port_num = value, !.before = self._port])

SetPort(value) ==
    /\ self.cls # "none"
    /\ PortSet(value, SetPortOf(self, value))
    /\ UNCHANGED <<pc, inp>>

\* self.port
GetPort ==
    /\ self.cls # "none"
    /\ ret' = [Blank EXCEPT !.op = "port", !.port = Port(self)]
    /\ UNCHANGED <<self, pc, inp>>

\* str(self)
Rendered(r) ==
    Returned(r.obj, [Blank EXCEPT !.op = "str", !.exc = r.exc, !.text = r.val])

Render ==
    /\ self.cls # "none"
    /\ Rendered(Str(self))
    /\ UNCHANGED <<pc, inp>>

\* self == other, other a str: PureAddress.__eq__ compares str(self) with it
Compared(other, r) ==
    Returned(r.obj, [Blank EXCEPT !.op = "eq", !.exc = r.exc, !.text = other,
                                  !.flag = (r.exc = "" /\ r.val = other)])

Equals(other) ==
    /\ self.cls # "none"
    /\ Compared(other, Str(self))
    /\ UNCHANGED <<pc, inp>>

\* arguments of the object lifecycle
PortArgs ==
    {None, NotAnInt, IntVal(0 - 1), IntVal(PORT_NUMBER_MIN_VALUE), IntVal(80),
     IntVal(PORT_NUMBER_MAX_VALUE), IntVal(PORT_NUMBER_MAX_VALUE + 1)}
NewPorts == {None, IntVal(80), IntVal(PORT_NUMBER_MAX_VALUE + 1)}
NumArgs ==
    {IntArg(n) : n \in {0 - 1, 0, 1, IPV4_MAX_VALUE, IPV4_MAX_VALUE + 1,
                        IPV6_MAX_VALUE, IPV6_MAX_VALUE + 1}}
LiveTexts ==
    {StrArg(s) : s \in {"0.0.0.1", "0.0.0.1:80", "0.0.0.1:65536", "1.2.3", "::1", "[::1]:80",
                         "1::2::3"}}
OtherTexts == {"0.0.0.1", "0.0.0.1:80", "0.0.0.1:0", "[::1]:80"}

Init ==
    /\ self = NoObject
    /\ ret = Blank
    /\ pc = "live"
    /\ inp = [start |-> "", num |-> 0, text |-> ""]

NewIPAddress ==
    /\ \E address \in NumArgs \cup LiveTexts, port_num \in NewPorts :
         Construct("IPAddress", address, port_num)
    /\ UNCHANGED <<pc, inp>>

NewIPv4 ==
    /\ \E address \in LiveTexts, port_num \in NewPorts : Construct("IPv4", address, port_num)
    /\ UNCHANGED <<pc, inp>>

NewIPv6 ==
    /\ \E address \in LiveTexts, port_num \in NewPorts : Construct("IPv6", address, port_num)
    /\ UNCHANGED <<pc, inp>>

Next ==
    \/ NewIPAddress
    \/ NewIPv4
    \/ NewIPv6
    \/ \E value \in PortArgs : SetPort(value)
    \/ GetPort
    \/ Render
    \/ \E other \in OtherTexts : Equals(other)

Spec == Init /\ [][Next]_vars

---------------------------------------------------------------------------
(* Validate, then construct: one text, given to a validator and to a       *)
(* constructor                                                             *)

Texts ==
    {"1.2.3.4", "1.2.3.4:80", "127.0.0.1", "1.2.3", "1.2.3:80", "1.2.3.4.5",
     "999.1.1.1", "01.2.3.4", "-1.2.3.4", "1..3.4", "1.2.x.4",
     "1.2.3.4:65535", "1.2.3.4:65536", "1.2.3.4:x", "1.2.3.4:", "1.2.3.4:80:x",
     "::1", "::", "1::", "B:a::1", "1:2:3:4:5:6:7:8", "1:2:3:4:5:6:7::8",
     "1:2:3", "1:2:3:4:5:6:7", "1:2:3:4:5:6:7:8:9", "::1:2:3:4:5:6:7:8",
     "FFFF::1", "g::1", "-1::1", "1:::2", "1::2::3", "::1::",
     "[::1]:80", "[1::2]:65535", "[::1]:65536", "[::1]:x", "[1::2::3]:80",
     "[1:2:3]:80", "[::1]:80]:.", "[::1]:80]:::"}
TextPorts == {None, IntVal(0), IntVal(90), IntVal(PORT_NUMBER_MAX_VALUE + 1)}

InitText ==
    /\ self = NoObject
    /\ ret = Blank
    /\ pc = "input"
    /\ inp \in [address : {StrArg(s) : s \in Texts}, port_num : TextPorts]

Validated(name, strict, verdict) ==
    /\ pc = "input"
    /\ ret' = [Blank EXCEPT !.op = name, !.address = inp.address, !.flag = verdict,
                            !.validator = name, !.strict = strict, !.valid = verdict]
    /\ pc' = "validated"
    /\ UNCHANGED <<self, inp>>

Validate4 ==
    \E strict \in BOOLEAN :
        Validated("_ipv4_validator", strict, _ipv4_validator(inp.address, strict))

Validate6 ==
    \E strict \in BOOLEAN :
        Validated("_ipv6_validator", strict, _ipv6_validator(inp.address, strict))

ValidateIp ==
    \E strict \in BOOLEAN :
        Validated("_ip_validator", strict, _ip_validator(inp.address, strict))

ConstructFromText ==
    /\ pc \in {"input", "validated"}
    /\ \E cls \in {"IPAddress", "IPv4", "IPv6"} : Construct(cls, inp.address, inp.port_num)
    /\ pc' = "constructed"
    /\ UNCHANGED inp

NextText == Validate4 \/ Validate6 \/ ValidateIp \/ ConstructFromText

SpecText == InitText /\ [][NextText]_vars

---------------------------------------------------------------------------
(* Properties                                                              *)

\* the text after the first port separator of a family text, "" when there is none
EmbeddedPortText(s) ==
    LET parts == IF Contains(s, ".") THEN split(s, ":") ELSE split(s, "]:")
    IN  IF Len(parts) > 1 THEN parts[2] ELSE ""

\* the address part of an IPv6 text: what the brackets of '[addr]:port' hold
AddressPart6(s) ==
    LET parts == split(s, "]:")
    IN  IF Len(parts) > 1 THEN SubSeq(parts[1], 2, Len(parts[1])) ELSE s

\* the number of non-overlapping occurrences of sep in s
RECURSIVE CountOf(_, _)
CountOf(s, sep) ==
    IF Len(s) < Len(sep) THEN 0
    ELSE IF SubSeq(s, 1, Len(sep)) = sep
    THEN 1 + CountOf(SubSeq(s, Len(sep) + 1, Len(s)), sep)
    ELSE CountOf(SubSeq(s, 2, Len(s)), sep)

EndsWith(s, suffix) ==
    Len(suffix) <= Len(s) /\ SubSeq(s, Len(s) - Len(suffix) + 1, Len(s)) = suffix

\* the class called is the family the text is written in
FamilyCalled ==
    IF Contains(inp.address.s, ".") THEN ret.cls = "IPv4" ELSE ret.cls = "IPv6"

\* C1: an integer rendered with remove_zeroes (with either value of shorten)
\* and decoded again is the same integer.
C1_ElisionRoundTrip ==
    (pc = "done" /\ inp.start = "num" /\ ret.remove_zeroes)
        => (ret.exc = "" /\ ret.num = inp.num)

\* a family text with an embedded port p1 was constructed together with an
\* explicit port p2, both in range and different
C2_BothPorts ==
    /\ pc = "constructed"
    /\ FamilyCalled
    /\ ret.exc = ""
    /\ int(EmbeddedPortText(inp.address.s), 10).exc = ""
    /\ InPortRange(int(EmbeddedPortText(inp.address.s), 10).val)
    /\ inp.port_num.t = "int"
    /\ InPortRange(inp.port_num.v)
    /\ inp.port_num.v # int(EmbeddedPortText(inp.address.s), 10).val

\* C2 as stated: with an embedded port p1 and an explicit port p2, the port of
\* the address is the embedded p1.
C2_EmbeddedPortWins ==
    C2_BothPorts => Port(self) = IntVal(int(EmbeddedPortText(inp.address.s), 10).val)

\* C2 amended: with an embedded port p1 and an explicit port p2, the port of
\* the address is the explicit p2.
C2_ExplicitPortWins ==
    C2_BothPorts => Port(self) = inp.port_num

C2_Witness ==
    /\ C2_BothPorts
    /\ inp.address.s = "1.2.3.4:80"
    /\ inp.port_num = IntVal(90)
    /\ Port(self) = IntVal(90)

\* C3: constructing a family address from a text whose segment count is wrong
\* (a dotted part that is not 4 integers; an IPv6 address without '::' that is
\* not 8 hextets) raises a value error.
C3_WrongSegmentCountRaises ==
    (/\ pc = "constructed"
     /\ FamilyCalled
     /\ \/ /\ ret.cls = "IPv4"
           /\ ParseAll(split(split(inp.address.s, ":")[1], "."), 10, FALSE).exc = ""
           /\ Len(split(split(inp.address.s, ":")[1], ".")) # IPV4_MAX_SEGMENT_COUNT
        \/ /\ ret.cls = "IPv6"
           /\ ~Contains(AddressPart6(inp.address.s), "::")
           /\ Len(split(AddressPart6(inp.address.s), ":")) # IPV6_MAX_SEGMENT_COUNT)
        => ret.exc = "ValueError"

\* C4: every constructed address has num within the IPv6 range, an IPv4 one
\* within the IPv4 range, and rendering a constructed generic address never raises.
C4_NumInRange ==
    self.cls # "none" =>
        /\ IPV6_MIN_VALUE <= Num(self) /\ Num(self) <= IPV6_MAX_VALUE
        /\ self.cls = "IPv4" => Num(self) <= IPV4_MAX_VALUE
        /\ (ret.op = "str" /\ self.cls = "IPAddress") => ret.exc = ""

\* C5 as stated: every dotted text of four segments in range, decoded and
\* rendered again, is the same text.
C5_RoundTrip4 ==
    (pc = "done" /\ inp.start = "text") => ret.text = inp.text

\* a segment token is written without a leading zero
NoLeadingZero(token) == Len(token) = 1 \/ Ch(token, 1) # "0"

\* C5 amended: every dotted text of four segments in range, each written in
\* decimal without leading zeros, decodes without error and, rendered again, is
\* the same text.
C5_CanonicalRoundTrip4 ==
    /\ inp.start = "text" => pc # "raised"
    /\ (/\ pc = "done"
        /\ inp.start = "text"
        /\ \A i \in 1..IPV4_MAX_SEGMENT_COUNT : NoLeadingZero(split(inp.text, ".")[i]))
           => ret.text = inp.text

C5_Witness ==
    /\ pc = "done"
    /\ inp.start = "text"
    /\ inp.text = "10.0.127.1"
    /\ ret.text = "10.0.127.1"

\* C6: every text of 8 hextets, each 4 upper-case zero-padded hex digits,
\* decodes without error and, rendered again with shorten false and
\* remove_zeroes false, is the same text.
C6_ExpandedRoundTrip ==
    /\ inp.start = "text" => pc # "raised"
    /\ (pc = "done" /\ inp.start = "text" /\ ~ret.shorten /\ ~ret.remove_zeroes)
           => ret.text = inp.text

C6_Witness ==
    /\ pc = "done"
    /\ inp.start = "text"
    /\ ~ret.shorten
    /\ ~ret.remove_zeroes
    /\ inp.text = "000B:0000:0000:0001:0000:0000:000B:0000"
    /\ ret.text = inp.text

\* C7: a setter call with an integer out of range raises a range failure and
\* leaves the stored port; a setter call with None makes the port absent; every
\* read of port is absence or an integer in [0, 65535], and is absence while
\* no port is stored.
C7_PortBounds ==
    /\ (ret.op = "port.setter" /\ ret.port_num.t = "int" /\ ~InPortRange(ret.port_num.v))
           => (ret.exc = "ValueError" /\ self._port = ret.before)
    /\ (ret.op = "port.setter" /\ ret.port_num = None)
           => (ret.exc = "" /\ self._port = None /\ Port(self) = None)
    /\ ret.op = "port"
           => /\ ret.port = None \/ (ret.port.t = "int" /\ InPortRange(ret.port.v))
              /\ self._port = None => ret.port = None
    /\ self.cls # "none"
           => (self._port = None \/ (self._port.t = "int" /\ InPortRange(self._port.v)))

C7_Witness ==
    /\ ret.op = "port.setter"
    /\ ret.port_num = IntVal(PORT_NUMBER_MAX_VALUE + 1)
    /\ ret.exc = "ValueError"
    /\ ret.before = IntVal(80)
    /\ self._port = IntVal(80)

\* C8: for every text that holds '::' more than once, constructing an IPv6
\* from it raises a value error and the IPv6 validator, strict or lenient,
\* returns False.
C8_TwoElisionsRejected ==
    CountOf(inp.address.s, "::") > 1 =>
        /\ (pc = "constructed" /\ ret.cls = "IPv6") => ret.exc = "ValueError"
        /\ (pc = "validated" /\ ret.validator = "_ipv6_validator") => ~ret.valid

\* C9: every rendering of a generic address ends with ':<port>' of the port a
\* read returns at that moment, and carries no port when the port is absent.
C9_StrShowsCurrentPort ==
    (ret.op = "str" /\ ret.exc = "" /\ self.cls = "IPAddress") =>
        IF Port(self) = None
        THEN ~Contains(ret.text, "]:") /\ ~(Contains(ret.text, ".") /\ Contains(ret.text, ":"))
        ELSE EndsWith(ret.text, ":" \o str(Port(self).v))

\* C10: a text the strict family validator accepts constructs, as that
\* family, without raising, with num in the family's range, and with its
\* embedded port as the port when no explicit port is passed.
C10_ValidatedConstructs ==
    (/\ pc = "constructed"
     /\ ret.strict
     /\ ret.valid
     /\ \/ ret.validator = "_ipv4_validator" /\ ret.cls = "IPv4"
        \/ ret.validator = "_ipv6_validator" /\ ret.cls = "IPv6")
        => /\ ret.exc = ""
           /\ 0 <= Num(self)
           /\ Num(self) <= (IF ret.cls = "IPv4" THEN IPV4_MAX_VALUE ELSE IPV6_MAX_VALUE)
           /\ (EmbeddedPortText(inp.address.s) # "" /\ inp.port_num = None)
                  => Port(self) = IntVal(int(EmbeddedPortText(inp.address.s), 10).val)

====
